---- MODULE Spec2Model ----
(***************************************************************************)
(* Job execution pipeline of the AI document summary service:              *)
(*   - the job rows of the store (backend/app/models.py, class Job),       *)
(*   - the worker task process_document (backend/app/tasks.py),            *)
(*   - the HTTP handlers create_job and cancel_job (backend/app/main.py),  *)
(*   - AIProviderManager.summarize_with_fallback                           *)
(*     (backend/app/ai_providers/manager.py).                              *)
(*                                                                         *)
(* Encodings.  A NULL column is "NULL" for text, 0 for a timestamp (the    *)
(* clock starts at 1) and -1 for processing_time.  Money is an integer in  *)
(* units of 1e-8 USD, so that (tokens/1000)*rate is exact: a rate of       *)
(* r USD per 1000 tokens is the integer r*1e5.                             *)
(***************************************************************************)
EXTENDS Integers, Sequences, FiniteSets, TLC

(***************************************************************************)
(* The model follows one job id.  Every query and update of create_job,    *)
(* cancel_job and process_document filters on a single Job.id, so the rows *)
(* of other jobs are neither read nor written by the steps modelled here.  *)
(*   settings  the process settings (config.py)                            *)
(*   exists    the job's row is in the store                               *)
(*   job       the row, as persisted                                       *)
(*   cancels   a cancel request has been accepted for the job              *)
(*   queue     number of task messages for the job waiting for a worker    *)
(*   delays    countdowns of the retries scheduled so far, in order        *)
(*   workers   each worker's position in process_document and its session  *)
(*   now       the clock                                                   *)
(*   fb        one call of summarize_with_fallback, step by step           *)
(*   response  status code of the last answer of cancel_job, 0 before any  *)
(*   pure      one call of a helper function of the providers: its         *)
(*             arguments and, once it returned, its result                 *)
(***************************************************************************)
VARIABLES settings, exists, job, cancels, queue, delays, workers, now, fb, response, pure

vars == <<settings, exists, job, cancels, queue, delays, workers, now, fb, response, pure>>

(***************************************************************************)
(* Bounds of the model.                                                    *)
(***************************************************************************)
NumWorkers == 2   \* worker processes of the pool
MaxTime    == 2   \* last value of the clock

(***************************************************************************)
(* Program constants.                                                      *)
(***************************************************************************)
DEFAULT_MAX_RETRIES == 3      \* models.py, Job.max_retries default
NULL_TIME == 0                \* started_at / completed_at are nullable
DEFAULT_ESTIMATED_TOKENS == 1000     \* main.py, create_job's except branch
DEFAULT_ESTIMATED_COST   == 10000000 \* 0.1 USD, main.py, create_job's except branch
DEMO_COST_PER_TOKEN      == 100000   \* 0.001 USD, manager.py, _demo_summarize
BACKOFF_BASE == 2             \* tasks.py, countdown=2 ** job.retry_count

NULL == "NULL"
NoFallback == "none"

(***************************************************************************)
(* Providers: models.py AIProvider, config.py rates, manager.py registry.  *)
(***************************************************************************)
AIProviderEnum == <<"openai_gpt4", "openai_gpt35", "anthropic_claude", "google_gemini">>

ProviderIds == {AIProviderEnum[i] : i \in 1..Len(AIProviderEnum)}

ApiKeys == {"openai", "anthropic", "google"}

\* which API key of the settings a provider is constructed from
KeyOf(p) ==
    CASE p = "openai_gpt4"      -> "openai"
      [] p = "openai_gpt35"     -> "openai"
      [] p = "anthropic_claude" -> "anthropic"
      [] p = "google_gemini"    -> "google"

\* per-1000-token rates, in 1e-5 USD
InputCostPer1k(p) ==
    CASE p = "openai_gpt4"      -> 3000
      [] p = "openai_gpt35"     -> 100
      [] p = "anthropic_claude" -> 800
      [] p = "google_gemini"    -> 25

OutputCostPer1k(p) ==
    CASE p = "openai_gpt4"      -> 6000
      [] p = "openai_gpt35"     -> 200
      [] p = "anthropic_claude" -> 2400
      [] p = "google_gemini"    -> 50

\* self.providers after _initialize_providers, in insertion order
Registry(keys) == SelectSeq(AIProviderEnum, LAMBDA p : KeyOf(p) \in keys)

\* get_provider(p) is not None
Registered(p, keys) == \E i \in 1..Len(Registry(keys)) : Registry(keys)[i] = p

\* provider.is_available(): the client built from a non-empty key
IsAvailable(p, keys) == KeyOf(p) \in keys

\* get_available_providers()
AvailableProviders(keys) == SelectSeq(Registry(keys), LAMBDA p : IsAvailable(p, keys))

(***************************************************************************)
(* Token and cost estimation: base.py, *_provider.py, manager.py.          *)
(***************************************************************************)
\* the fallback count taken as one token per three characters
EstimateTokensPerThree(p, len, exact) ==
    IF KeyOf(p) = "openai" /\ exact >= 0 THEN exact ELSE len \div 3

\* estimate_tokens(text): `exact` is the tokenizer's count for the text, or -1
\* when no exact tokenizer is available (always so for Anthropic and Google)
EstimateTokens(p, len, exact) ==
    IF KeyOf(p) = "openai" /\ exact >= 0 THEN exact ELSE len \div 4

\* AIProvider.estimate_cost(input_tokens, output_tokens), in 1e-8 USD
ProviderCost(p, input_tokens, output_tokens) ==
    input_tokens * InputCostPer1k(p) + output_tokens * OutputCostPer1k(p)

\* the output taken as a quarter of the input
EstimateCostQuarterOutput(p, len, exact, keys) ==
    IF Registered(p, keys)
    THEN LET tokens == EstimateTokens(p, len, exact)
             output_tokens == tokens \div 4
         IN  ProviderCost(p, tokens, output_tokens)
    ELSE 0

\* the rates applied whether the provider is registered or not
EstimateCostUnregistered(p, len, exact, keys) ==
    LET tokens == EstimateTokens(p, len, exact)
        output_tokens == tokens \div 5
    IN  ProviderCost(p, tokens, output_tokens)

\* AIProviderManager.estimate_cost(text, provider)
EstimateCost(p, len, exact, keys) ==
    IF Registered(p, keys)
    THEN LET tokens == EstimateTokens(p, len, exact)
             output_tokens == tokens \div 5
         IN  ProviderCost(p, tokens, output_tokens)
    ELSE 0

(***************************************************************************)
(* summarize_with_fallback: the order in which providers are attempted.    *)
(***************************************************************************)
\* the primary is attempted whether it is registered or not
PrimaryPartUnchecked(primary, keys) == <<primary>>

\* manager.py 62-67: the primary is attempted if registered and available
PrimaryPart(primary, keys) ==
    IF Registered(primary, keys) /\ IsAvailable(primary, keys)
    THEN <<primary>> ELSE <<>>

\* the fallback block never attempts the fallback
FallbackPartSkipped(fallback, keys) == <<>>

\* manager.py 70-76: the fallback is attempted if given, registered and available
FallbackPart(fallback, keys) ==
    IF fallback # NoFallback /\ Registered(fallback, keys) /\ IsAvailable(fallback, keys)
    THEN <<fallback>> ELSE <<>>

\* the loop over the other providers attempts none
RestPartNone(primary, fallback, keys) == <<>>

\* manager.py 79-86: every other available provider, in registry order
RestPart(primary, fallback, keys) ==
    SelectSeq(AvailableProviders(keys), LAMBDA p : p \notin {primary, fallback})

Candidates(primary, fallback, keys) ==
    PrimaryPart(primary, keys) \o FallbackPart(fallback, keys)
        \o RestPart(primary, fallback, keys)

ALL_FAILED == "All AI providers failed or unavailable"
NO_TEXT == "No text could be extracted from document"
EXTRACT_FAILED == "Failed to extract"
SOFT_LIMIT == "SoftTimeLimitExceeded()"
LOOP_RUNNING == "Cannot run the event loop while another loop is running"
DEMO_FAILED == "Demo mode: Simulated provider failure"

\* provider_used of a real provider's SummaryResult
ProviderLabel(p) ==
    CASE KeyOf(p) = "openai"    -> "OpenAI/" \o p
      [] KeyOf(p) = "anthropic" -> "Anthropic/" \o p
      [] KeyOf(p) = "google"    -> "Google/" \o p

\* the SummaryResult a real provider returns for a text of length len whose
\* completion has out_tokens tokens
ProviderResult(p, len, out_tokens) ==
    [summary |-> "summary by " \o p, key_points |-> <<"point">>, entities |-> <<>>,
     tokens_used |-> len \div 4 + out_tokens,
     cost |-> ProviderCost(p, len \div 4, out_tokens),
     provider_used |-> ProviderLabel(p)]

\* _demo_summarize's SummaryResult
DemoResult(primary, len) ==
    [summary |-> "demo summary", key_points |-> <<"k1", "k2", "k3", "k4", "k5">>,
     entities |-> <<"organization", "date", "person", "location", "money">>,
     tokens_used |-> len \div 4,
     cost |-> (len \div 4) * DEMO_COST_PER_TOKEN,
     provider_used |-> "Demo/" \o primary]

OutTokens == 5   \* tokens of a real provider's completion

\* no SummaryResult: the call raised
NoResult ==
    [summary |-> NULL, key_points |-> <<>>, entities |-> <<>>, tokens_used |-> 0,
     cost |-> 0, provider_used |-> NULL]

\* what one call of summarize_with_fallback can end with: a result, or an error
SummarizeOutcomes(primary, fallback, demo_mode, len, st) ==
    IF demo_mode
    THEN {[ok |-> TRUE, result |-> DemoResult(primary, len), error |-> NULL]}
         \cup (IF st.demo_failure_rate > 0
               THEN {[ok |-> FALSE, result |-> NoResult, error |-> DEMO_FAILED]}
               ELSE {})
    ELSE LET cands == Candidates(primary, fallback, st.keys)
         IN  {[ok |-> TRUE, result |-> ProviderResult(cands[k], len, OutTokens),
               error |-> NULL] : k \in 1..Len(cands)}
             \cup {[ok |-> FALSE, result |-> NoResult, error |-> ALL_FAILED]}

(***************************************************************************)
(* The job row (models.py, class Job) and the ORM session of a worker.     *)
(***************************************************************************)
Fields ==
    {"document_id", "status", "ai_provider", "fallback_provider", "started_at",
     "completed_at", "processing_time", "summary", "key_points", "entities",
     "estimated_tokens", "actual_tokens", "estimated_cost", "actual_cost",
     "error_message", "retry_count", "max_retries", "is_demo"}

\* a row as create_job inserts it: the column defaults of models.py
NewJob(document_id, ai_provider, fallback_provider, estimated_tokens, estimated_cost, is_demo) ==
    [document_id |-> document_id, status |-> "pending", ai_provider |-> ai_provider,
     fallback_provider |-> fallback_provider, started_at |-> NULL_TIME,
     completed_at |-> NULL_TIME, processing_time |-> -1, summary |-> NULL,
     key_points |-> <<>>, entities |-> <<>>, estimated_tokens |-> estimated_tokens,
     actual_tokens |-> 0, estimated_cost |-> estimated_cost, actual_cost |-> 0,
     error_message |-> NULL, retry_count |-> 0, max_retries |-> DEFAULT_MAX_RETRIES,
     is_demo |-> is_demo]

\* the placeholder for the attributes of an expired (not loaded) instance
BlankRow == NewJob(0, NULL, NULL, 0, 0, FALSE)

\* A worker: its position in process_document and its session's Job instance.
\*   loaded  the column values as last read from the store
\*   mem     the instance's attributes (loaded, plus the assignments made since)
\*   forced  the attributes assigned while the instance was expired
\*   text_len       length of the extracted text
\*   provider_used  result.provider_used, once summarize_with_fallback returned
IdleWorker ==
    [pc |-> "idle", expired |-> TRUE, loaded |-> BlankRow, mem |-> BlankRow,
     forced |-> {}, text_len |-> 0, provider_used |-> NULL]

\* job.<f> = upd[f], for every f in DOMAIN upd
Assign(wk, upd) ==
    [wk EXCEPT !.mem = [f \in Fields |-> IF f \in DOMAIN upd THEN upd[f] ELSE wk.mem[f]],
               !.forced = IF wk.expired THEN wk.forced \cup DOMAIN upd ELSE wk.forced]

\* reading an attribute of an expired instance loads the row; the attributes
\* assigned in the meantime keep their assigned values
Refresh(wk, row) ==
    IF wk.expired
    THEN [wk EXCEPT !.expired = FALSE, !.loaded = row,
                    !.mem = [f \in Fields |-> IF f \in wk.forced THEN wk.mem[f] ELSE row[f]]]
    ELSE wk

\* the columns the session's UPDATE sets: those with a net change
Written(wk) == wk.forced \cup {f \in Fields : wk.mem[f] # wk.loaded[f]}

\* db.commit(): the row after the UPDATE
Commit(wk, row) == [f \in Fields |-> IF f \in Written(wk) THEN wk.mem[f] ELSE row[f]]

\* db.commit() expires every instance of the session
Expire(wk) ==
    [wk EXCEPT !.expired = TRUE, !.loaded = BlankRow, !.mem = BlankRow, !.forced = {}]

(***************************************************************************)
(* Inputs.                                                                 *)
(***************************************************************************)
\* the process settings (config.py): demo flag, configured API keys, demo
\* failure rate (%), and whether redis_url starts with "redis://"
SettingsChoices ==
    {[demo_mode |-> TRUE,  keys |-> {},         demo_failure_rate |-> 10, redis |-> TRUE],
     [demo_mode |-> TRUE,  keys |-> {},         demo_failure_rate |-> 0,  redis |-> TRUE],
     [demo_mode |-> FALSE, keys |-> {"openai"}, demo_failure_rate |-> 10, redis |-> TRUE],
     [demo_mode |-> FALSE, keys |-> {},         demo_failure_rate |-> 10, redis |-> TRUE],
     [demo_mode |-> TRUE,  keys |-> {},         demo_failure_rate |-> 0,  redis |-> FALSE]}

\* the (ai_provider, fallback_provider) of a JobCreate request
Requests ==
    {[ai_provider |-> "openai_gpt35", fallback_provider |-> NoFallback],
     [ai_provider |-> "anthropic_claude", fallback_provider |-> "openai_gpt4"]}

\* what DocumentProcessor.extract_text gives: the length of the text, -1 if it raises
Extractions == {-1, 0, 40}

\* what the exact tokenizer counts for a text, -1 if there is none
TokenizerCounts(len) == {-1, len \div 3}

Workers == 1..NumWorkers

(***************************************************************************)
(* The task queue (celery).                                                *)
(***************************************************************************)
TASK_MAX_RETRIES == 3   \* tasks.py, @celery_app.task(max_retries=3)

\* the message is sent twice
EnqueueTwice(q) == q + 2

\* process_document.delay(job_id): one more message for the job
Enqueue(q) == q + 1

\* the retry test looks at the limit, not at the count
ShouldRetryIgnoringCount(retry_count, max_retries) == max_retries > 0

\* the retry test lets the count reach the limit
ShouldRetryInclusive(retry_count, max_retries) == retry_count <= max_retries

\* the retry test of the failure handler
ShouldRetry(retry_count, max_retries) == retry_count < max_retries

\* countdown=2 ** job.retry_count
Backoff(retry_count) == BACKOFF_BASE ^ retry_count

FbIdle == [pc |-> "idle"]

PureIdle == [op |-> "none"]

Init ==
    /\ settings \in SettingsChoices
    /\ exists = FALSE
    /\ job = BlankRow
    /\ cancels = FALSE
    /\ queue = 0
    /\ delays = <<>>
    /\ workers = [w \in Workers |-> IdleWorker]
    /\ now = 1
    /\ fb = FbIdle
    /\ response = 0
    /\ pure = PureIdle

(***************************************************************************)
(* main.py: cancel_job.                                                    *)
(***************************************************************************)
\* cancel_job accepts every status
CancellableAlways(status) == TRUE

\* the statuses cancel_job accepts
Cancellable(status) == status \in {"pending", "processing"}

\* DELETE /api/jobs/{job_id}: 404 for an unknown id, 400 for a job that is
\* neither pending nor processing, else the job is cancelled
CancelJob ==
    /\ IF ~exists
       THEN /\ response' = 404
            /\ UNCHANGED <<job, cancels>>
       ELSE IF ~Cancellable(job.status)
       THEN /\ response' = 400
            /\ UNCHANGED <<job, cancels>>
       ELSE /\ job' = [job EXCEPT !.status = "cancelled", !.completed_at = now]
            /\ cancels' = TRUE
            /\ response' = 200
    /\ UNCHANGED <<settings, exists, queue, delays, workers, now, fb, pure>>

(***************************************************************************)
(* tasks.py: process_document, one action per step between two accesses    *)
(* of the store.                                                           *)
(***************************************************************************)
\* the pool hands a message to an idle worker; identical workers are taken
\* in index order
FreeWorker(w) ==
    /\ workers[w].pc = "idle"
    /\ \A v \in Workers : v < w => workers[v].pc # "idle"

\* tasks.py 38-48: the session is opened and the job row is queried
Fetch(w) ==
    /\ FreeWorker(w)
    /\ queue > 0
    /\ exists
    /\ queue' = queue - 1
    /\ workers' = [workers EXCEPT ![w] =
                     [IdleWorker EXCEPT !.pc = "fetched", !.expired = FALSE,
                                        !.loaded = job, !.mem = job]]
    /\ UNCHANGED <<settings, exists, job, cancels, delays, now, fb, response, pure>>

\* a claim that also resets the estimate
ClaimAssignResetsEstimate(wk, t) ==
    Assign(wk, [status |-> "processing", started_at |-> t, estimated_cost |-> 0])

\* the assignments of the claim
ClaimAssign(wk, t) == Assign(wk, [status |-> "processing", started_at |-> t])

\* tasks.py 71-75: status = PROCESSING, started_at = now, commit
Claim(w) ==
    /\ workers[w].pc = "fetched"
    /\ LET wk == ClaimAssign(workers[w], now)
       IN  /\ job' = Commit(wk, job)
           /\ workers' = [workers EXCEPT ![w] = [Expire(wk) EXCEPT !.pc = "claimed"]]
    /\ UNCHANGED <<settings, exists, cancels, queue, delays, now, fb, response, pure>>

\* the handler without the assignment of error_message
HandlerAssignKeepsMessage(wk, row, message, t) ==
    LET w1 == Assign(wk, [status |-> "failed"])
        w2 == Refresh(w1, row)
        w3 == Assign(w2, [retry_count |-> w2.mem.retry_count + 1])
    IN  IF ShouldRetry(w3.mem.retry_count, w3.mem.max_retries)
        THEN Assign(w3, [status |-> "pending"])
        ELSE Assign(w3, [completed_at |-> t])

\* tasks.py 343-386: the failure handler's assignments, for an exception with
\* this message; the result is the worker's instance at the handler's commit
HandlerAssign(wk, row, message, t) ==
    LET w1 == Assign(wk, [status |-> "failed", error_message |-> message])
        w2 == Refresh(w1, row)
        w3 == Assign(w2, [retry_count |-> w2.mem.retry_count + 1])
    IN  IF ShouldRetry(w3.mem.retry_count, w3.mem.max_retries)
        THEN Assign(w3, [status |-> "pending"])
        ELSE Assign(w3, [completed_at |-> t])

\* self.retry(exc=e, countdown=...) sends the message unless the task's own
\* retry limit is used up
RetrySent(wk, sofar) == wk.mem.status = "pending" /\ Len(sofar) < TASK_MAX_RETRIES

\* the handler, its commit, and self.retry when the job went back to pending
Fail(w, message) ==
    LET wk  == HandlerAssign(workers[w], job, message, now)
        row == Commit(wk, job)
    IN  /\ job' = row
        /\ queue' = IF RetrySent(wk, delays) THEN Enqueue(queue) ELSE queue
        /\ delays' = IF RetrySent(wk, delays)
                     THEN Append(delays, Backoff(row.retry_count)) ELSE delays
        /\ workers' = [workers EXCEPT ![w] = IdleWorker]
        /\ UNCHANGED <<settings, exists, cancels, now, fb, response, pure>>

(***************************************************************************)
(* main.py: create_job.                                                    *)
(***************************************************************************)
\* main.py 182: in demo mode without a redis URL the task is called directly
DirectCall(st) == st.demo_mode /\ ~st.redis

\* main.py 184-187: process_document(job.id) inside the request handler, for
\* a document whose extraction gives y.  The handler is a coroutine running
\* on the server's event loop, so loop.run_until_complete (tasks.py 131)
\* raises RuntimeError instead of running summarize_with_fallback; a task
\* called directly re-raises from self.retry without sending a message, and
\* create_job swallows the exception.  The result is the row as persisted.
SyncRun(row, y, t) ==
    LET fetched == [IdleWorker EXCEPT !.pc = "fetched", !.expired = FALSE,
                                      !.loaded = row, !.mem = row]
        claimed == ClaimAssign(fetched, t)
        row1    == Commit(claimed, row)
        wk      == IF y > 0 THEN Refresh(Expire(claimed), row1) ELSE Expire(claimed)
        message == IF y < 0 THEN EXTRACT_FAILED
                   ELSE IF y = 0 THEN NO_TEXT ELSE LOOP_RUNNING
    IN  Commit(HandlerAssign(wk, row1, message, t), row1)

\* POST /api/jobs: estimate the cost, insert the row, then queue the task or
\* call it directly; the task's own extraction gives one of ys
Submit(ys) ==
    /\ ~exists
    /\ \E req \in Requests, x \in Extractions :
         \E exact \in TokenizerCounts(x) :
            LET estimated_cost == IF x < 0 THEN DEFAULT_ESTIMATED_COST
                                  ELSE EstimateCost(req.ai_provider, x, exact, settings.keys)
                estimated_tokens == IF x < 0 THEN DEFAULT_ESTIMATED_TOKENS ELSE x \div 4
                row == NewJob(1, req.ai_provider, req.fallback_provider,
                              estimated_tokens, estimated_cost, settings.demo_mode)
            IN  IF DirectCall(settings)
                THEN /\ \E y \in ys : job' = SyncRun(row, y, now)
                     /\ queue' = queue
                ELSE /\ job' = row
                     /\ queue' = Enqueue(queue)
    /\ exists' = TRUE
    /\ UNCHANGED <<settings, cancels, delays, workers, now, fb, response, pure>>

CreateJob == Submit(Extractions)

(***************************************************************************)
(* tasks.py: process_document, the steps after the claim.                  *)
(***************************************************************************)
\* the task goes on to the provider call with an empty text as well
ExtractTextAlsoEmpty(w) ==
    /\ workers[w].pc = "claimed"
    /\ \E x \in Extractions :
         /\ x >= 0
         /\ workers' = [workers EXCEPT ![w] =
                          [Refresh(workers[w], job) EXCEPT !.pc = "calling", !.text_len = x]]
    /\ UNCHANGED <<settings, exists, job, cancels, queue, delays, now, fb, response, pure>>

\* tasks.py 77-110: extract_text returns a text
ExtractText(w) ==
    /\ workers[w].pc = "claimed"
    /\ \E x \in Extractions :
         /\ x > 0
         /\ workers' = [workers EXCEPT ![w] =
                          [Refresh(workers[w], job) EXCEPT !.pc = "calling", !.text_len = x]]
    /\ UNCHANGED <<settings, exists, job, cancels, queue, delays, now, fb, response, pure>>

\* tasks.py 79-85: extract_text raises, or returns no text
ExtractFails(w) ==
    /\ workers[w].pc = "claimed"
    /\ \E x \in Extractions :
         /\ x <= 0
         /\ Fail(w, IF x < 0 THEN EXTRACT_FAILED ELSE NO_TEXT)

\* the success path without the assignment of actual_cost
ResultAssignWithoutCost(wk, result, t) ==
    Assign(wk, [summary |-> result.summary, key_points |-> result.key_points,
                entities |-> result.entities, actual_tokens |-> result.tokens_used,
                status |-> "completed", completed_at |-> t,
                processing_time |-> t - wk.mem.started_at])

\* the assignments of the success path, tasks.py 188-195
ResultAssign(wk, result, t) ==
    Assign(wk, [summary |-> result.summary, key_points |-> result.key_points,
                entities |-> result.entities, actual_tokens |-> result.tokens_used,
                actual_cost |-> result.cost, status |-> "completed", completed_at |-> t,
                processing_time |-> t - wk.mem.started_at])

\* tasks.py 127-195: summarize_with_fallback returns a result, which is
\* assigned to the instance
SummarizeReturns(w) ==
    /\ workers[w].pc = "calling"
    /\ LET wk == workers[w]
       IN  \E o \in SummarizeOutcomes(wk.mem.ai_provider, wk.mem.fallback_provider,
                                      wk.mem.is_demo, wk.text_len, settings) :
              /\ o.ok
              /\ workers' = [workers EXCEPT ![w] =
                               [ResultAssign(wk, o.result, now) EXCEPT
                                   !.pc = "assigned",
                                   !.provider_used = o.result.provider_used]]
    /\ UNCHANGED <<settings, exists, job, cancels, queue, delays, now, fb, response, pure>>

\* tasks.py 130-140: summarize_with_fallback raises
SummarizeFails(w) ==
    /\ workers[w].pc = "calling"
    /\ LET wk == workers[w]
       IN  \E o \in SummarizeOutcomes(wk.mem.ai_provider, wk.mem.fallback_provider,
                                      wk.mem.is_demo, wk.text_len, settings) :
              /\ ~o.ok
              /\ Fail(w, o.error)

\* tasks.py 282: the commit of the success path
CommitResult(w) ==
    /\ workers[w].pc = "assigned"
    /\ job' = Commit(workers[w], job)
    /\ workers' = [workers EXCEPT ![w] = IdleWorker]
    /\ UNCHANGED <<settings, exists, cancels, queue, delays, now, fb, response, pure>>

\* celery_app.py 35: SoftTimeLimitExceeded is raised inside the task, wherever
\* it is; the handler catches it like any exception
SoftTimeLimit(w) ==
    /\ workers[w].pc \in {"fetched", "claimed", "calling", "assigned"}
    /\ Fail(w, SOFT_LIMIT)

\* celery_app.py 34: at the hard limit the pool kills the worker process.
\* The handler does not run, the session's transaction is never committed,
\* and the message, acknowledged on receipt, is not delivered again.
HardTimeLimit(w) ==
    /\ workers[w].pc \in {"fetched", "claimed", "calling", "assigned"}
    /\ workers' = [workers EXCEPT ![w] = IdleWorker]
    /\ UNCHANGED <<settings, exists, job, cancels, queue, delays, now, fb, response, pure>>

\* time passes
Tick ==
    /\ now < MaxTime
    /\ now' = now + 1
    /\ UNCHANGED <<settings, exists, job, cancels, queue, delays, workers, fb, response, pure>>

Next ==
    \/ CreateJob
    \/ CancelJob
    \/ \E w \in Workers : Fetch(w)
    \/ \E w \in Workers : Claim(w)
    \/ \E w \in Workers : ExtractText(w)
    \/ \E w \in Workers : ExtractFails(w)
    \/ \E w \in Workers : SummarizeReturns(w)
    \/ \E w \in Workers : SummarizeFails(w)
    \/ \E w \in Workers : CommitResult(w)
    \/ \E w \in Workers : SoftTimeLimit(w)
    \/ \E w \in Workers : HardTimeLimit(w)
    \/ Tick

Spec == Init /\ [][Next]_vars

(***************************************************************************)
(* tasks.py: cleanup_old_jobs, run next to the pipeline.  The model keeps   *)
(* one job; when its row is deleted the place is free for the next job,    *)
(* and the record of the deleted job's retries and cancel is dropped.       *)
(***************************************************************************)
MaxDays == 1   \* cleanup_old_jobs(days), days in 0..MaxDays

\* the filter without the test of the status
DeletableAnyStatus(row, cutoff_date) ==
    row.completed_at # NULL_TIME /\ row.completed_at < cutoff_date

\* tasks.py 451-454: completed_at < cutoff_date (never true of a null
\* completed_at) and status in (completed, failed)
Deletable(row, cutoff_date) ==
    /\ row.completed_at # NULL_TIME /\ row.completed_at < cutoff_date
    /\ row.status \in {"completed", "failed"}

\* tasks.py 443-461: one DELETE statement and its commit
CleanupOldJobs ==
    /\ \E days \in 0..MaxDays :
         LET cutoff_date == now - days
         IN  IF exists /\ Deletable(job, cutoff_date)
             THEN /\ exists' = FALSE
                  /\ job' = BlankRow
                  /\ cancels' = FALSE
                  /\ delays' = <<>>
             ELSE UNCHANGED <<exists, job, cancels, delays>>
    /\ UNCHANGED <<settings, queue, workers, now, fb, response, pure>>

CleanupNext ==
    \/ Next
    \/ CleanupOldJobs

SpecCleanup == Init /\ [][CleanupNext]_vars

(***************************************************************************)
(* The pipeline when the environment raises no fault: every document can   *)
(* be read, no time limit is hit and nobody cancels.  The pool runs a      *)
(* task whenever a message and a free worker exist, and a running task     *)
(* always takes its next step.                                             *)
(***************************************************************************)
\* create_job for a document that the task can read
CreateJobReadable == Submit({y \in Extractions : y > 0})

NoFaultNext ==
    \/ CreateJobReadable
    \/ \E w \in Workers : Fetch(w)
    \/ \E w \in Workers : Claim(w)
    \/ \E w \in Workers : ExtractText(w)
    \/ \E w \in Workers : SummarizeReturns(w)
    \/ \E w \in Workers : SummarizeFails(w)
    \/ \E w \in Workers : CommitResult(w)
    \/ Tick

\* a step of a task: at most one task runs for the job, and it has one next step
TaskStep ==
    \E w \in Workers :
        \/ Fetch(w)
        \/ Claim(w)
        \/ ExtractText(w)
        \/ SummarizeReturns(w)
        \/ SummarizeFails(w)
        \/ CommitResult(w)

TaskProgress == WF_vars(TaskStep)

SpecNoFaults == Init /\ [][NoFaultNext]_vars /\ TaskProgress

(***************************************************************************)
(* The pipeline under fair scheduling: every call of extract_text and of   *)
(* summarize_with_fallback returns or raises, no time limit is hit, and    *)
(* the pool delivers every message, first deliveries and retries alike.    *)
(***************************************************************************)
FairNext ==
    \/ CreateJob
    \/ CancelJob
    \/ \E w \in Workers : Fetch(w)
    \/ \E w \in Workers : Claim(w)
    \/ \E w \in Workers : ExtractText(w)
    \/ \E w \in Workers : ExtractFails(w)
    \/ \E w \in Workers : SummarizeReturns(w)
    \/ \E w \in Workers : SummarizeFails(w)
    \/ \E w \in Workers : CommitResult(w)
    \/ Tick

\* a delivery of a message to a free worker, or the next step of a task
PoolStep ==
    \E w \in Workers :
        \/ Fetch(w)
        \/ Claim(w)
        \/ ExtractText(w)
        \/ ExtractFails(w)
        \/ SummarizeReturns(w)
        \/ SummarizeFails(w)
        \/ CommitResult(w)

FairScheduling == WF_vars(PoolStep)

SpecFair == Init /\ [][FairNext]_vars /\ FairScheduling

(***************************************************************************)
(* manager.py 48-88: one call of summarize_with_fallback, step by step.    *)
(* fb.up[p] tells whether provider p's summarize succeeds during the call; *)
(* fb.calls lists the providers whose summarize was invoked, in order.     *)
(***************************************************************************)
\* the settings the manager is built from: any set of configured keys
FbSettings ==
    {[demo_mode |-> d, keys |-> k, demo_failure_rate |-> r, redis |-> TRUE] :
        d \in {FALSE}, k \in SUBSET ApiKeys, r \in {0, 10}}

\* the arguments of the call and the state of the providers' endpoints
FbInputs ==
    {[pc |-> "start", primary |-> p, fallback |-> f, demo |-> d, up |-> u,
      calls |-> <<>>, inflight |-> NULL, rest |-> 1, ret |-> NULL, raised |-> NULL] :
        p \in ProviderIds, f \in ProviderIds \cup {NoFallback}, d \in BOOLEAN,
        u \in [ProviderIds -> BOOLEAN]}

FbInit ==
    /\ settings \in FbSettings
    /\ fb \in FbInputs
    /\ exists = FALSE
    /\ job = BlankRow
    /\ cancels = FALSE
    /\ queue = 0
    /\ delays = <<>>
    /\ workers = [w \in Workers |-> IdleWorker]
    /\ now = 1
    /\ response = 0
    /\ pure = PureIdle

FbFrame == UNCHANGED <<settings, exists, job, cancels, queue, delays, workers, now, response, pure>>

\* provider.summarize(text, max_length) is awaited
FbInvoke(p, pc) ==
    fb' = [fb EXCEPT !.pc = pc, !.inflight = p, !.calls = Append(fb.calls, p)]

\* the demo flag is ignored
UsesSimulatorNever(demo_mode) == FALSE

\* manager.py 58: if demo_mode
UsesSimulator(demo_mode) == demo_mode

\* manager.py 57-59 and 90-131: demo mode, the simulator's outcome is the call's
FbDemo ==
    /\ fb.pc = "start"
    /\ UsesSimulator(fb.demo)
    /\ \E failure \in BOOLEAN :
         /\ failure => settings.demo_failure_rate > 0
         /\ fb' = [fb EXCEPT !.pc = "done",
                             !.ret = IF failure THEN NULL ELSE "Demo/" \o fb.primary,
                             !.raised = IF failure THEN DEMO_FAILED ELSE NULL]
    /\ FbFrame

\* manager.py 61-65: the primary is invoked, or skipped
FbTryPrimary ==
    /\ fb.pc = "start"
    /\ ~UsesSimulator(fb.demo)
    /\ LET part == PrimaryPart(fb.primary, settings.keys)
       IN  IF part # <<>> THEN FbInvoke(part[1], "primary_call")
           ELSE fb' = [fb EXCEPT !.pc = "try_fallback"]
    /\ FbFrame

\* manager.py 69-74: the fallback is invoked, or skipped
FbTryFallback ==
    /\ fb.pc = "try_fallback"
    /\ LET part == FallbackPart(fb.fallback, settings.keys)
       IN  IF part # <<>> THEN FbInvoke(part[1], "fallback_call")
           ELSE fb' = [fb EXCEPT !.pc = "try_rest"]
    /\ FbFrame

\* manager.py 78-84: the next of the other available providers is invoked
FbTryRest ==
    /\ fb.pc = "try_rest"
    /\ LET part == RestPart(fb.primary, fb.fallback, settings.keys)
       IN  /\ fb.rest <= Len(part)
           /\ FbInvoke(part[fb.rest], "rest_call")
    /\ FbFrame

\* a failed call ends the special cases: the loop over the others is next
AfterFailureSkipsFallback(pc) == "try_rest"

\* the step after a failed call
AfterFailure(pc) ==
    CASE pc = "primary_call"  -> "try_fallback"
      [] pc = "fallback_call" -> "try_rest"
      [] pc = "rest_call"     -> "try_rest"

\* return await provider.summarize(...): the call in flight succeeds
FbReturn ==
    /\ fb.pc \in {"primary_call", "fallback_call", "rest_call"}
    /\ fb.up[fb.inflight]
    /\ fb' = [fb EXCEPT !.pc = "done", !.ret = fb.inflight, !.inflight = NULL]
    /\ FbFrame

\* except Exception: the call in flight fails, the next candidate is tried
FbCallFails ==
    /\ fb.pc \in {"primary_call", "fallback_call", "rest_call"}
    /\ ~fb.up[fb.inflight]
    /\ fb' = [fb EXCEPT !.pc = AfterFailure(fb.pc), !.inflight = NULL,
                        !.rest = IF fb.pc = "rest_call" THEN fb.rest + 1 ELSE fb.rest]
    /\ FbFrame

\* manager.py 88: no candidate is left
FbRaise ==
    /\ fb.pc = "try_rest"
    /\ fb.rest > Len(RestPart(fb.primary, fb.fallback, settings.keys))
    /\ fb' = [fb EXCEPT !.pc = "done", !.raised = ALL_FAILED]
    /\ FbFrame

FbNext ==
    \/ FbDemo
    \/ FbTryPrimary
    \/ FbTryFallback
    \/ FbTryRest
    \/ FbReturn
    \/ FbCallFails
    \/ FbRaise

SpecFallback == FbInit /\ [][FbNext]_vars

(***************************************************************************)
(* The helper functions of the providers: base.py extract_key_points and   *)
(* extract_entities, estimate_tokens of the three providers, manager.py    *)
(* estimate_cost and _demo_summarize.                                      *)
(*                                                                         *)
(* A text is a sequence of items [kind, value].  For extract_key_points    *)
(* the items are the lines of the model's answer: kind is the bullet the   *)
(* stripped line starts with ("dot" for U+2022, "-", "*"), or "plain", or  *)
(* "blank", and                                                            *)
(* value stands for the rest of the line.  For extract_entities the items  *)
(* are the pieces of the document: kind is the pattern the piece matches   *)
(* ("email", "url", "date", "money") or "word", value stands for the       *)
(* matched string.                                                         *)
(***************************************************************************)
MaxPattern == 4    \* items of a pattern
MaxRepeat  == 3    \* a text is a pattern, repeated up to this many times
MaxTextLen == 24   \* characters of a text whose tokens are estimated

KEY_POINT_LIMIT == 5    \* base.py, key_points[:5]
ENTITY_LIMIT    == 10   \* base.py, entities[:10]

LineKinds == {"dot", "-", "*", "plain", "blank"}
PieceKinds == {"email", "url", "date", "money", "word"}

\* s[:n]
Take(s, n) == SubSeq(s, 1, IF Len(s) < n THEN Len(s) ELSE n)

\* the lines that are kept, in the order of the text, without [:5]
ExtractKeyPointsUntruncated(lines) ==
    LET sel == SelectSeq(lines, LAMBDA l : l.kind \in {"dot", "-", "*"})
    IN  [i \in 1..Len(sel) |-> sel[i].value]

\* base.py 38-45: the stripped lines that start with a bullet, without the
\* bullet, the first 5 of them
ExtractKeyPoints(lines) ==
    LET sel == SelectSeq(lines, LAMBDA l : l.kind \in {"dot", "-", "*"})
    IN  Take([i \in 1..Len(sel) |-> sel[i].value], KEY_POINT_LIMIT)

\* re.findall(pattern of kind, text), each match as an entity
FindAll(kind, text) ==
    LET sel == SelectSeq(text, LAMBDA t : t.kind = kind)
    IN  [i \in 1..Len(sel) |-> [type |-> kind, value |-> sel[i].value]]

\* the matches of the four patterns in the order of the text
ExtractEntitiesInTextOrder(text) ==
    LET sel == SelectSeq(text, LAMBDA t : t.kind # "word")
    IN  Take([i \in 1..Len(sel) |-> [type |-> sel[i].kind, value |-> sel[i].value]],
             ENTITY_LIMIT)

\* base.py 47-72: emails, then urls, then dates, then amounts, the first 10
ExtractEntities(text) ==
    Take(FindAll("email", text) \o FindAll("url", text) \o FindAll("date", text)
            \o FindAll("money", text), ENTITY_LIMIT)

\* the patterns over a set of kinds, the empty one included
Patterns(kinds) == UNION {[1..n -> kinds] : n \in 0..MaxPattern}

\* the text made of k copies of a pattern; value is the item's position
Repeat(pattern, k) ==
    [i \in 1..(Len(pattern) * k) |->
        [kind |-> pattern[((i - 1) % Len(pattern)) + 1], value |-> i]]

Texts(kinds) == {Repeat(pattern, k) : pattern \in Patterns(kinds), k \in 1..MaxRepeat}

\* a call before it runs
PureCall(op, provider, len, exact, input) ==
    [op |-> op, pc |-> "start", provider |-> provider, len |-> len, exact |-> exact,
     input |-> input, number |-> -1, key_points |-> <<>>, entities |-> <<>>]

PureInputs ==
    {PureCall(op, p, len, exact, <<>>) :
        op \in {"estimate_tokens", "estimate_cost"}, p \in ProviderIds,
        len \in 0..MaxTextLen, exact \in {-1, 0}}
    \cup {PureCall("demo_summarize", p, len, -1, <<>>) :
            p \in ProviderIds, len \in 0..MaxTextLen}
    \cup {PureCall("extract_key_points", NULL, 0, -1, t) : t \in Texts(LineKinds)}
    \cup {PureCall("extract_entities", NULL, 0, -1, t) : t \in Texts(PieceKinds)}

\* the tokenizer's count for the call's text: -1 if the lookup fails
ExactCount(call) == IF call.exact < 0 THEN -1 ELSE call.len \div 3

PureInit ==
    /\ settings \in {st \in FbSettings : st.demo_failure_rate = 0}
    /\ pure \in PureInputs
    /\ pure.op # "estimate_cost" => settings.keys = ApiKeys
    /\ exists = FALSE
    /\ job = BlankRow
    /\ cancels = FALSE
    /\ queue = 0
    /\ delays = <<>>
    /\ workers = [w \in Workers |-> IdleWorker]
    /\ now = 1
    /\ fb = FbIdle
    /\ response = 0

PureFrame ==
    UNCHANGED <<settings, exists, job, cancels, queue, delays, workers, now, fb, response>>

\* provider.estimate_tokens(text)
EstimateTokensCall ==
    /\ pure.op = "estimate_tokens" /\ pure.pc = "start"
    /\ pure' = [pure EXCEPT !.pc = "done",
                    !.number = EstimateTokens(pure.provider, pure.len, ExactCount(pure))]
    /\ PureFrame

\* manager.estimate_cost(text, provider)
EstimateCostCall ==
    /\ pure.op = "estimate_cost" /\ pure.pc = "start"
    /\ pure' = [pure EXCEPT !.pc = "done",
                    !.number = EstimateCost(pure.provider, pure.len, ExactCount(pure),
                                            settings.keys)]
    /\ PureFrame

\* provider.extract_key_points(content)
ExtractKeyPointsCall ==
    /\ pure.op = "extract_key_points" /\ pure.pc = "start"
    /\ pure' = [pure EXCEPT !.pc = "done", !.key_points = ExtractKeyPoints(pure.input)]
    /\ PureFrame

\* provider.extract_entities(text)
ExtractEntitiesCall ==
    /\ pure.op = "extract_entities" /\ pure.pc = "start"
    /\ pure' = [pure EXCEPT !.pc = "done", !.entities = ExtractEntities(pure.input)]
    /\ PureFrame

\* manager._demo_summarize(text, provider), when it does not fail
DemoSummarizeCall ==
    /\ pure.op = "demo_summarize" /\ pure.pc = "start"
    /\ LET result == DemoResult(pure.provider, pure.len)
       IN  pure' = [pure EXCEPT !.pc = "done", !.number = result.tokens_used,
                       !.key_points = result.key_points, !.entities = result.entities]
    /\ PureFrame

PureNext ==
    \/ EstimateTokensCall
    \/ EstimateCostCall
    \/ ExtractKeyPointsCall
    \/ ExtractEntitiesCall
    \/ DemoSummarizeCall

SpecProviders == PureInit /\ [][PureNext]_vars

(***************************************************************************)
(* Properties.                                                             *)
(***************************************************************************)
IsTerminal(status) == status \in {"completed", "failed", "cancelled"}

\* the worker is between its claim and its final commit
InAttempt(wk) == wk.pc \in {"claimed", "calling", "assigned"}

ResultColumns(row) ==
    <<row.summary, row.key_points, row.entities, row.actual_tokens, row.actual_cost>>

\* C1: cancellation race.  When a worker whose provider call was in flight
\* while cancel_job committed status = cancelled (its session still holds
\* status = processing) commits its successful result, the persisted status
\* stays cancelled and summary, key_points, entities, actual_tokens and
\* actual_cost are not written.
C1_CancelRaceDiscardsResult ==
    [][\A w \in Workers :
          (/\ CommitResult(w)
           /\ workers[w].loaded.status = "processing"
           /\ job.status = "cancelled")
          => (job'.status = "cancelled" /\ ResultColumns(job') = ResultColumns(job))]_vars

\* C2: terminal states are immutable.  Once the persisted status is
\* completed, failed or cancelled, no step changes the job's status,
\* summary, actual_tokens, actual_cost or estimated_cost.
C2_TerminalImmutable ==
    [][(exists /\ IsTerminal(job.status))
          => /\ job'.status = job.status
             /\ job'.summary = job.summary
             /\ job'.actual_tokens = job.actual_tokens
             /\ job'.actual_cost = job.actual_cost
             /\ job'.estimated_cost = job.estimated_cost]_vars

\* C3: retry/backoff trace.  A job with max_retries = 3 that was never
\* cancelled and ended in failed (so every attempt failed) was handed back
\* to pending exactly 3 times, with the retries scheduled after 2, 4 and 8
\* seconds in that order, and has retry_count = max_retries.
C3_RetryTrace ==
    (exists /\ job.status = "failed" /\ ~cancels /\ job.max_retries = 3)
        => (delays = <<2, 4, 8>> /\ job.retry_count = job.max_retries)

\* C4: atomic claim.  The claim of process_document changes the job (status
\* to processing, started_at set) only when the persisted status at that
\* moment is pending; otherwise the job is left unchanged.
C4_AtomicClaim ==
    [][\A w \in Workers : Claim(w) => (job.status = "pending" \/ job' = job)]_vars

\* C5: per-job mutual exclusion.  In every reachable state at most one
\* worker is between its claim and its final commit for the job.
C5_MutualExclusion ==
    \A w1, w2 \in Workers :
        (InAttempt(workers[w1]) /\ InAttempt(workers[w2])) => w1 = w2

\* a worker holds the claim on a retried attempt of a job that a cancel request raced
C5_Witness ==
    \E w \in Workers :
        workers[w].pc = "calling" /\ job.retry_count = 2 /\ cancels /\ queue = 0

\* the changes of the persisted status the state machine allows
AllowedTransitions ==
    {<<"pending", "processing">>, <<"processing", "completed">>,
     <<"processing", "failed">>, <<"processing", "pending">>,
     <<"pending", "cancelled">>, <<"processing", "cancelled">>}

\* C6: every change of the persisted status is one of pending->processing,
\* processing->completed, processing->failed, processing->pending,
\* pending->cancelled, processing->cancelled.
C6_StatusTransitions ==
    [][(exists /\ job'.status # job.status)
          => <<job.status, job'.status>> \in AllowedTransitions]_vars

\* C7: in every persisted state, completed_at is set if and only if the
\* status is completed, failed or cancelled.
C7_CompletedAtIffTerminal ==
    exists => ((job.completed_at # NULL_TIME) <=> IsTerminal(job.status))

\* C8: in every persisted state whose status is pending or processing,
\* retry_count <= max_retries.
C8_RetryCountBounded ==
    (exists /\ job.status \in {"pending", "processing"})
        => job.retry_count <= job.max_retries

\* a job is being processed again after two failed attempts
C8_Witness ==
    exists /\ job.status = "processing" /\ job.retry_count = 2 /\ Len(delays) = 2

\* C9: in every persisted state whose status is not completed, summary is
\* null and key_points and entities are empty.
C9_ResultsOnlyWhenCompleted ==
    (exists /\ job.status # "completed")
        => (job.summary = NULL /\ job.key_points = <<>> /\ job.entities = <<>>)

InCalls(p) == \E i \in 1..Len(fb.calls) : fb.calls[i] = p

\* the case of C10: not demo mode, the primary is available and its call fails,
\* the fallback is another available provider and its call succeeds
FallbackCase ==
    /\ fb.pc # "idle"
    /\ ~fb.demo
    /\ IsAvailable(fb.primary, settings.keys) /\ ~fb.up[fb.primary]
    /\ fb.fallback # NoFallback /\ fb.fallback # fb.primary
    /\ IsAvailable(fb.fallback, settings.keys) /\ fb.up[fb.fallback]

\* C10: fallback ordering.  Outside demo mode, with an available primary
\* whose call fails and an available, distinct fallback whose call succeeds,
\* summarize_with_fallback returns the fallback's result and the summarize
\* of every third provider is never invoked.
C10_FallbackOrdering ==
    FallbackCase =>
        /\ \A r \in ProviderIds \ {fb.primary, fb.fallback} : ~InCalls(r)
        /\ fb.pc = "done" => (fb.ret = fb.fallback /\ fb.raised = NULL)

\* the call has ended in that case, with a third provider available
C10_Witness ==
    /\ FallbackCase
    /\ fb.pc = "done"
    /\ \E r \in ProviderIds \ {fb.primary, fb.fallback} : IsAvailable(r, settings.keys)

\* every available registered provider's call fails during this call
AllAvailableFail ==
    \A p \in ProviderIds : IsAvailable(p, settings.keys) => ~fb.up[p]

\* C11: exhaustion.  Outside demo mode, a finished call of
\* summarize_with_fallback has raised "All AI providers failed or
\* unavailable" if and only if every available registered provider's call
\* fails (in particular when none is available); it has then invoked every
\* available provider and returned no result, and otherwise it has returned
\* a provider's result.
C11_Exhaustion ==
    (fb.pc = "done" /\ ~fb.demo) =>
        /\ (fb.raised = ALL_FAILED) <=> AllAvailableFail
        /\ fb.raised = ALL_FAILED =>
              /\ fb.ret = NULL
              /\ \A p \in ProviderIds : IsAvailable(p, settings.keys) => InCalls(p)
        /\ ~AllAvailableFail => (fb.ret \in ProviderIds /\ fb.up[fb.ret] /\ fb.raised = NULL)

\* the call raised after the primary, the fallback and two more providers failed
C11_Witness ==
    fb.pc = "done" /\ ~fb.demo /\ fb.raised = ALL_FAILED /\ Len(fb.calls) = 4

\* how many times provider p's summarize was invoked during the call
Invocations(p) == Cardinality({i \in 1..Len(fb.calls) : fb.calls[i] = p})

\* C12: within one call of summarize_with_fallback every provider's
\* summarize is invoked at most once, also when the fallback is the same
\* provider as the primary (the fallback is attempted only when it is given
\* and distinct from the primary).
C12_AtMostOnce ==
    fb.pc # "idle" => \A p \in ProviderIds : Invocations(p) <= 1

IsPrefix(s, t) == Len(s) <= Len(t) /\ \A i \in 1..Len(s) : s[i] = t[i]

\* C13: attempt order.  Outside demo mode the providers invoked so far are
\* an initial part of: primary, fallback, every other available provider in
\* registry order; each call but the last one has failed, at most the last
\* one is in flight, and the call raises only after the whole list was
\* attempted.
C13_SequentialAttempts ==
    (fb.pc # "idle" /\ ~fb.demo) =>
        LET cands == Candidates(fb.primary, fb.fallback, settings.keys)
            n     == Len(fb.calls)
        IN  /\ IsPrefix(fb.calls, cands)
            /\ \A i \in 1..(n - 1) : ~fb.up[fb.calls[i]]
            /\ fb.inflight # NULL => (n > 0 /\ fb.inflight = fb.calls[n])
            /\ (fb.inflight = NULL /\ fb.pc # "done") => \A i \in 1..n : ~fb.up[fb.calls[i]]
            /\ (fb.pc = "done" /\ fb.raised # NULL) => fb.calls = cands
            /\ (fb.pc = "done" /\ fb.raised = NULL) => (n > 0 /\ fb.ret = fb.calls[n])

\* the third candidate returned the result after the primary and the fallback failed
C13_Witness ==
    /\ fb.pc = "done" /\ ~fb.demo
    /\ Len(fb.calls) = 3
    /\ fb.calls[1] = fb.primary /\ fb.calls[2] = fb.fallback
    /\ fb.ret = fb.calls[3]

\* C14: in demo mode summarize_with_fallback invokes no provider's
\* summarize, and the call ends with the simulator's outcome: either its
\* result, or its simulated failure, with no fallback attempt.
C14_DemoIsFinal ==
    (fb.pc # "idle" /\ fb.demo) =>
        /\ fb.calls = <<>>
        /\ fb.inflight = NULL
        /\ fb.pc \in {"start", "done"}
        /\ fb.pc = "done" =>
              \/ fb.raised = DEMO_FAILED /\ fb.ret = NULL
              \/ fb.raised = NULL /\ fb.ret = "Demo/" \o fb.primary

\* the simulator failed although the primary and the fallback were available and working
C14_Witness ==
    /\ fb.pc = "done" /\ fb.demo /\ fb.raised = DEMO_FAILED
    /\ IsAvailable(fb.primary, settings.keys) /\ fb.up[fb.primary]
    /\ fb.fallback # NoFallback /\ fb.fallback # fb.primary
    /\ IsAvailable(fb.fallback, settings.keys) /\ fb.up[fb.fallback]

AttemptFails(w) == ExtractFails(w) \/ SummarizeFails(w) \/ SoftTimeLimit(w)

\* C16: per-failure retry decision.  When an attempt fails, retry_count
\* grows by exactly 1; if the new retry_count < max_retries the job is
\* persisted as pending and exactly one retry is scheduled, with countdown
\* 2^retry_count (new value); otherwise the job is persisted as failed with
\* error_message and completed_at set and no retry is scheduled.
C16_RetryDecision ==
    [][\A w \in Workers : AttemptFails(w) =>
          /\ job'.retry_count = job.retry_count + 1
          /\ IF job'.retry_count < job'.max_retries
             THEN /\ job'.status = "pending"
                  /\ queue' = queue + 1
                  /\ delays' = Append(delays, 2 ^ job'.retry_count)
             ELSE /\ job'.status = "failed"
                  /\ job'.error_message # NULL
                  /\ job'.completed_at # NULL_TIME
                  /\ queue' = queue
                  /\ delays' = delays]_vars

\* C17: empty extraction is not retried.  When extract_text returns an empty
\* text, the attempt ends with the job persisted as failed, no retry is
\* scheduled and the job does not go back to pending.
C17_EmptyExtractionIsFinal ==
    [][\A w \in Workers :
          (ExtractFails(w) /\ job'.error_message = NO_TEXT)
          => (job'.status = "failed" /\ queue' = queue /\ delays' = delays)]_vars

\* C18: hard time limit.  When a worker's attempt is terminated by the hard
\* limit while the job is processing, the termination is handled like a
\* failed provider call: retry_count is incremented and the job is persisted
\* as pending or as failed; it does not stay in processing.
C18_HardLimitFeedsRetry ==
    [][\A w \in Workers :
          (HardTimeLimit(w) /\ exists /\ job.status = "processing")
          => (/\ job'.retry_count = job.retry_count + 1
              /\ job'.status \in {"pending", "failed"})]_vars

\* C19: end to end, not demo.  A job with primary openai_gpt35, no
\* fallback, is_demo false and no provider configured, never cancelled,
\* whose attempts ended with the exhausted-providers error, is failed only
\* after 3 retries were scheduled, with retry_count = 3.
C19_UnconfiguredPrimaryFails ==
    (/\ exists /\ ~cancels
     /\ job.ai_provider = "openai_gpt35" /\ job.fallback_provider = NoFallback
     /\ ~job.is_demo /\ settings.keys = {}
     /\ job.status = "failed" /\ job.error_message = ALL_FAILED)
    => (Len(delays) = 3 /\ job.retry_count = 3)

\* the scenario of C20: a demo job, the simulator never fails
DemoScenario == exists /\ job.is_demo /\ settings.demo_failure_rate = 0

\* C20: end to end, demo.  When no document is unreadable, no time limit is
\* hit and nobody cancels, a job with is_demo = true under
\* demo_failure_rate = 0 is never failed, keeps retry_count = 0 and
\* eventually is completed; the result stored with it has provider_used =
\* "Demo/" followed by the primary's name, tokens = len(text) div 4 and
\* cost = tokens * 0.001.
C20_DemoCompletes ==
    /\ [](DemoScenario => (job.status # "failed" /\ job.retry_count = 0))
    /\ [][\A w \in Workers : (CommitResult(w) /\ DemoScenario) =>
             /\ job'.status = "completed"
             /\ workers[w].provider_used = "Demo/" \o job.ai_provider
             /\ job'.actual_tokens = workers[w].text_len \div 4
             /\ job'.actual_cost = job'.actual_tokens * DEMO_COST_PER_TOKEN]_vars
    /\ (DemoScenario ~> (job.status = "completed"))

\* str(e) of the exceptions an attempt can end with
FailureMessages == {EXTRACT_FAILED, NO_TEXT, ALL_FAILED, DEMO_FAILED, SOFT_LIMIT}

\* C21: no failure is dropped.  A failed job has an error_message and a
\* completed job has a summary; and when the handler of an attempt that
\* raised an exception with message m persists the job as failed, the
\* stored error_message is m.
C21_FailureRecorded ==
    /\ [](exists => /\ (job.status = "failed" => job.error_message \in FailureMessages)
                    /\ (job.status = "completed" => job.summary # NULL))
    /\ [][\A w \in Workers : \A m \in FailureMessages :
             (workers[w].pc # "idle" /\ Fail(w, m) /\ job'.status = "failed")
             => job'.error_message = m]_vars

\* the third attempt found no text: after two retries the job is failed with
\* the message of that attempt
C21_Witness ==
    /\ exists /\ job.status = "failed" /\ job.retry_count = 3
    /\ job.error_message = NO_TEXT /\ delays = <<2, 4>> /\ ~cancels
    /\ ~job.is_demo /\ settings.keys = {}

\* C22: success commit.  The commit that ends an attempt whose call of
\* summarize_with_fallback returned a result persists summary, key_points,
\* entities, actual_tokens and actual_cost equal to that result's fields,
\* status = completed, completed_at set, and processing_time = completed_at
\* - started_at, which is not negative.  The success path's reading of the
\* clock is taken to differ from the completed_at its session had loaded
\* (two readings of a microsecond clock, a provider call apart).
C22_SuccessCommit ==
    [][\A w \in Workers :
          (/\ CommitResult(w)
           /\ workers[w].mem.completed_at # workers[w].loaded.completed_at) =>
          /\ \E o \in SummarizeOutcomes(job.ai_provider, job.fallback_provider,
                                         job.is_demo, workers[w].text_len, settings) :
                /\ o.ok
                /\ o.result.provider_used = workers[w].provider_used
                /\ job'.summary = o.result.summary
                /\ job'.key_points = o.result.key_points
                /\ job'.entities = o.result.entities
                /\ job'.actual_tokens = o.result.tokens_used
                /\ job'.actual_cost = o.result.cost
          /\ job'.status = "completed"
          /\ job'.completed_at # NULL_TIME
          /\ job'.processing_time = job'.completed_at - job'.started_at
          /\ job'.processing_time >= 0]_vars

\* a real provider's result was committed one time unit after the claim
C22_Witness ==
    /\ exists /\ job.status = "completed" /\ ~job.is_demo /\ ~cancels
    /\ job.summary # NULL /\ job.actual_cost > 0 /\ job.actual_tokens = 10 + OutTokens
    /\ job.processing_time = 1 /\ job.completed_at = job.started_at + 1

\* C23: only available providers are called, and the first success ends the
\* call.  During summarize_with_fallback every provider whose summarize is
\* invoked is registered and available (an unconfigured primary or fallback
\* is skipped); every invocation but the last one has failed; and a call
\* that returned a provider's result returned the result of the last
\* provider invoked, whose call succeeded.
C23_OnlyAvailableCalled ==
    /\ \A i \in 1..Len(fb.calls) :
          /\ Registered(fb.calls[i], settings.keys)
          /\ IsAvailable(fb.calls[i], settings.keys)
          /\ i < Len(fb.calls) => ~fb.up[fb.calls[i]]
    /\ (fb.pc = "done" /\ ~fb.demo /\ fb.ret # NULL) =>
          /\ fb.calls # <<>>
          /\ fb.ret = fb.calls[Len(fb.calls)]
          /\ fb.up[fb.ret]
          /\ fb.raised = NULL

\* neither the primary nor the fallback is configured: both were skipped, a
\* third provider's call failed and a fourth one's result was returned
C23_Witness ==
    /\ fb.pc = "done" /\ ~fb.demo
    /\ ~Registered(fb.primary, settings.keys)
    /\ fb.fallback # NoFallback /\ ~Registered(fb.fallback, settings.keys)
    /\ Len(fb.calls) = 2 /\ fb.ret = fb.calls[2]

\* C24: the estimate of a registered provider.  estimate_cost(T, provider)
\* is tokens * inR / 1000 + outputTokens * outR / 1000 (here in 1e-8 USD,
\* rates in 1e-5 USD), with tokens = provider.estimate_tokens(T) and
\* outputTokens = tokens div 5.
C24_EstimateFormula ==
    (/\ pure.op = "estimate_cost" /\ pure.pc = "done"
     /\ Registered(pure.provider, settings.keys)) =>
        LET tokens == EstimateTokens(pure.provider, pure.len, ExactCount(pure))
        IN  pure.number = tokens * InputCostPer1k(pure.provider)
                          + (tokens \div 5) * OutputCostPer1k(pure.provider)

\* gpt-4, 24 characters counted as 8 tokens by the tokenizer: 1 output token
C24_Witness ==
    /\ pure.op = "estimate_cost" /\ pure.pc = "done"
    /\ pure.provider = "openai_gpt4" /\ "openai" \in settings.keys
    /\ pure.len = 24 /\ pure.exact = 0
    /\ pure.number = 8 * 3000 + 1 * 6000

\* C25: the estimate of a provider that is not registered.  estimate_cost
\* returns 0 for it, and the call always returns.
C25_UnknownProviderCostsNothing ==
    (pure.op = "estimate_cost" /\ ~Registered(pure.provider, settings.keys)) =>
        /\ pure.pc = "start" => ENABLED EstimateCostCall
        /\ pure.pc = "done" => pure.number = 0

\* the estimate for a gemini job was asked with only an OpenAI key configured
C25_Witness ==
    /\ pure.op = "estimate_cost" /\ pure.pc = "done"
    /\ pure.provider = "google_gemini" /\ settings.keys = {"openai"}
    /\ pure.len = 24 /\ pure.number = 0

\* C29: token-count fallback.  For a provider without an exact tokenizer
\* (Anthropic and Google always, OpenAI when the tokenizer lookup fails),
\* estimate_tokens(T) = len(T) div 4.
C29_TokenFallback ==
    (/\ pure.op = "estimate_tokens" /\ pure.pc = "done"
     /\ (KeyOf(pure.provider) # "openai" \/ ExactCount(pure) < 0)) =>
        pure.number = pure.len \div 4

\* the tokenizer lookup failed for gpt-3.5 on a text of 23 characters
C29_Witness ==
    /\ pure.op = "estimate_tokens" /\ pure.pc = "done"
    /\ pure.provider = "openai_gpt35" /\ pure.exact < 0
    /\ pure.len = 23 /\ pure.number = 5

\* the positions of the lines of a text that start with a bullet
BulletLines(lines) == {i \in 1..Len(lines) : lines[i].kind \in {"dot", "-", "*"}}

\* the k-th smallest element of a set of numbers
Nth(S, k) == CHOOSE i \in S : Cardinality({j \in S : j < i}) = k - 1

Min(a, b) == IF a < b THEN a ELSE b

\* C27: bounded results.  The key points and entities of the simulator's
\* result and the lists returned by extract_key_points and extract_entities,
\* from which every provider builds its result, have at most 5 and at most
\* 10 elements; extract_key_points returns the first 5 bullet lines in the
\* order of the text, and extract_entities returns min(10, number of
\* matches) distinct matches of the text.
C27_BoundedLists ==
    pure.pc = "done" =>
        /\ Len(pure.key_points) <= 5
        /\ Len(pure.entities) <= 10
        /\ pure.op = "extract_key_points" =>
              LET B == BulletLines(pure.input)
              IN  /\ Len(pure.key_points) = Min(5, Cardinality(B))
                  /\ \A k \in 1..Len(pure.key_points) :
                        pure.key_points[k] = pure.input[Nth(B, k)].value
        /\ pure.op = "extract_entities" =>
              LET M == {i \in 1..Len(pure.input) : pure.input[i].kind # "word"}
              IN  /\ Len(pure.entities) = Min(10, Cardinality(M))
                  /\ \A k \in 1..Len(pure.entities) :
                        \E i \in M : /\ pure.entities[k].type = pure.input[i].kind
                                      /\ pure.entities[k].value = pure.input[i].value
                  /\ \A k, l \in 1..Len(pure.entities) :
                        pure.entities[k] = pure.entities[l] => k = l
        /\ pure.op = "demo_summarize" =>
              (Len(pure.key_points) = 5 /\ Len(pure.entities) = 5)

\* an answer of 12 lines, 9 of them bullets after a plain first line: the
\* first 5 bullet lines are returned
C27_Witness ==
    /\ pure.op = "extract_key_points" /\ pure.pc = "done"
    /\ Len(pure.input) = 12 /\ Cardinality(BulletLines(pure.input)) = 9
    /\ pure.input[1].kind = "plain"
    /\ pure.key_points = <<2, 3, 4, 6, 7>>

\* the place of a category in the list extract_entities returns
CategoryRank(type) ==
    CASE type = "email" -> 1 [] type = "url" -> 2 [] type = "date" -> 3
      [] type = "money" -> 4

\* how many pieces of a text match a pattern
Matches(text, kind) == Cardinality({i \in 1..Len(text) : text[i].kind = kind})

\* C28: category order.  In the list returned by extract_entities every
\* email precedes every url, every url precedes every date and every date
\* precedes every amount, wherever they stand in the text; for a text with
\* one of each the list is email, url, date, amount.
C28_CategoryOrder ==
    (pure.op = "extract_entities" /\ pure.pc = "done") =>
        /\ \A k, l \in 1..Len(pure.entities) :
              k < l => CategoryRank(pure.entities[k].type)
                          <= CategoryRank(pure.entities[l].type)
        /\ (\A c \in {"email", "url", "date", "money"} : Matches(pure.input, c) = 1) =>
              [k \in 1..Len(pure.entities) |-> pure.entities[k].type]
                 = <<"email", "url", "date", "money">>

\* the text has an amount, then a date, then a url, then an email
C28_Witness ==
    /\ pure.op = "extract_entities" /\ pure.pc = "done"
    /\ [i \in 1..Len(pure.input) |-> pure.input[i].kind] = <<"money", "date", "url", "email">>
    /\ pure.entities = <<[type |-> "email", value |-> 4], [type |-> "url", value |-> 3],
                         [type |-> "date", value |-> 2], [type |-> "money", value |-> 1]>>

\* C26: estimation never blocks submission.  Whatever the extraction and
\* the estimate give, create_job leaves a job that is pending with
\* retry_count = 0 and one message for it in the task queue, and
\* estimated_tokens and estimated_cost are not changed afterwards.
C26_SubmissionQueued ==
    /\ [][CreateJob => (/\ exists'
                        /\ job'.status = "pending"
                        /\ job'.retry_count = 0
                        /\ queue' = queue + 1)]_vars
    /\ [][exists => (/\ job'.estimated_tokens = job.estimated_tokens
                     /\ job'.estimated_cost = job.estimated_cost)]_vars

\* C30: liveness.  Under fair scheduling, with every call returning or
\* raising, every job that create_job created eventually has a terminal
\* status (completed, failed or cancelled) and keeps one from then on.
C30_EventuallyTerminal ==
    exists ~> [](IsTerminal(job.status))

\* C31: the direct-call path.  A job that create_job ran by calling
\* process_document directly, and whose attempt failed with retries
\* remaining (it is pending again, retry_count < max_retries), has a retry
\* scheduled for it or a worker on it: it is not left pending with nothing
\* that will re-attempt it.
C31_DirectCallRetried ==
    (/\ exists /\ DirectCall(settings)
     /\ job.status = "pending" /\ job.retry_count > 0
     /\ job.retry_count < job.max_retries)
    => (queue > 0 \/ \E w \in Workers : workers[w].pc # "idle")

\* the steps of one attempt, in their order; an attempt can end at any step
StepOrder ==
    {<<"idle", "fetched">>, <<"fetched", "claimed">>, <<"claimed", "calling">>,
     <<"calling", "assigned">>}
    \cup {<<pc, "idle">> : pc \in {"fetched", "claimed", "calling", "assigned"}}

\* summarize_with_fallback returns or raises in this step of worker w
SummarizeCalled(w) == SummarizeReturns(w) \/ SummarizeFails(w)

\* C32: order of the steps of an attempt.  A worker goes from the claim to
\* the extraction, to the call of summarize_with_fallback, to the commit of
\* the result, never back.  summarize_with_fallback is called only after
\* the claim was committed and extract_text returned a non-empty text, and
\* after the call the attempt goes on to its final commit only: at most one
\* call per attempt.
C32_StepOrder ==
    /\ [][\A w \in Workers :
             workers'[w].pc # workers[w].pc
             => <<workers[w].pc, workers'[w].pc>> \in StepOrder]_vars
    /\ [][\A w \in Workers : SummarizeCalled(w) =>
             /\ workers[w].pc = "calling"
             /\ workers[w].text_len > 0
             /\ job.started_at # NULL_TIME
             /\ workers'[w].pc \in {"assigned", "idle"}]_vars
    /\ [](\A w \in Workers :
             workers[w].pc \in {"claimed", "calling", "assigned"}
             => job.started_at # NULL_TIME)
    /\ [][\A w \in Workers : ExtractFails(w) => workers'[w].pc = "idle"]_vars

\* a re-attempt has its result assigned and not yet committed: the job is
\* still processing
C32_Witness ==
    \E w \in Workers :
        /\ workers[w].pc = "assigned" /\ workers[w].text_len = 40
        /\ job.status = "processing" /\ job.retry_count = 1
        /\ workers[w].mem.summary # NULL /\ job.summary = NULL

\* the columns create_job writes and the lifecycle leaves alone
FrameColumns ==
    {"document_id", "ai_provider", "fallback_provider", "estimated_tokens",
     "estimated_cost", "max_retries", "is_demo"}

\* C33: frame of the lifecycle.  No step taken after the job was created
\* (the steps of process_document, its failure handler, cancel_job) changes
\* document_id, ai_provider, fallback_provider, estimated_tokens,
\* estimated_cost, max_retries or is_demo; and the job create_job leaves,
\* also after running the task itself, has in these columns the values of
\* the row it inserted.
C33_LifecycleFrame ==
    /\ [][exists => \A f \in FrameColumns : job'[f] = job[f]]_vars
    /\ [][CreateJob =>
             \E req \in Requests, x \in Extractions :
                \E exact \in TokenizerCounts(x) :
                   LET row == NewJob(1, req.ai_provider, req.fallback_provider,
                                     IF x < 0 THEN DEFAULT_ESTIMATED_TOKENS ELSE x \div 4,
                                     IF x < 0 THEN DEFAULT_ESTIMATED_COST
                                     ELSE EstimateCost(req.ai_provider, x, exact,
                                                       settings.keys),
                                     settings.demo_mode)
                   IN  \A f \in FrameColumns : job'[f] = row[f]]_vars

\* a job with a non-zero estimate was cancelled after a failed attempt
C33_Witness ==
    /\ exists /\ job.status = "cancelled" /\ job.retry_count = 1
    /\ job.ai_provider = "openai_gpt35" /\ job.estimated_cost > 0
    /\ job.estimated_tokens = 10 /\ job.started_at # NULL_TIME

C35_CompletedHasNoError ==
    (exists /\ job.status = "completed") => job.error_message = NULL

\* C36: cleanup_old_jobs.  A job's row disappears only in a step of
\* cleanup_old_jobs, and then its status was completed or failed and its
\* completed_at was set and older than the cutoff; a job that is pending or
\* processing, or that has a message in the queue or a worker on it, is
\* never deleted.
C36_CleanupOnlyOldTerminal ==
    /\ [][(exists /\ ~exists') =>
             /\ CleanupOldJobs
             /\ job.status \in {"completed", "failed"}
             /\ job.completed_at # NULL_TIME
             /\ \E days \in 0..MaxDays : job.completed_at < now - days
             /\ queue = 0
             /\ \A w \in Workers : workers[w].pc = "idle"]_vars
    /\ [][(exists /\ job.status \in {"pending", "processing"}) => exists']_vars

\* a completed or failed job, for which a cancel request had been rejected,
\* was deleted
C36_Witness ==
    ~exists /\ response = 400 /\ job = BlankRow /\ now = 2

====
